---- MODULE Spec2Model ----
(***************************************************************************)
(* Model of west.py: the bootstrap script that resolves a container        *)
(* engine, provisions ./zmk and ./build, recreates the 'zmk-config'        *)
(* volume, builds the 'zmk-west' image, prints help and starts an          *)
(* interactive container.                                                  *)
(*                                                                         *)
(* The host (installed engines, filesystem, the engine's volume and image  *)
(* store) persists from one run of main() to the next; the locals of       *)
(* main() and the console output are per run.                              *)
(***************************************************************************)
EXTENDS Integers, Sequences, FiniteSets

\* ---------------------------------------------------------------- bounds
MaxRuns  == 2      \* runs of main() in one behaviour
MaxNotes == 2      \* progress notifications delivered during one clone
MaxCount == 2      \* largest cur_count / max_count a notification carries

\* ------------------------------------------------------ program constants
InitialBarLength == 100     \* progressbar(length=100)
ExitNoEngine     == 1       \* exit(1)

\* Python's interpreter status: 0 when main() returns, 1 when an exception
\* reaches the top level.  NoStatus marks a run that has not ended.
NoStatus == 0 - 1

\* Working directories: the first run starts in FirstDir, with anything at
\* its ./zmk and ./build; OtherDir is a directory the script has not been
\* run in, though the engine may hold a volume bound to its ./config.
FirstDir == "/a"
OtherDir == "/b"
BaseDirs == {FirstDir, OtherDir}
PathStates == {"absent", "dir", "file"}
NoVolume == "none"

\* cur_count and max_count are floats (or numeric strings); a count is kept
\* in halves, so that h stands for h/2 and int() has something to truncate.
Counts == 0 .. (2 * MaxCount)
None == 0 - 1                       \* max_count = None

VARIABLES
    dockerInstalled,   \* which('docker') is not None
    podmanInstalled,   \* which('podman') is not None
    barBuffered,       \* the installed click buffers steps in update()
    zmk,               \* BaseDirs -> state of <base>/zmk
    build,             \* BaseDirs -> state of <base>/build
    volume,            \* base dir whose ./config 'zmk-config' is bound to
    image,             \* the image 'zmk-west' exists
    runNo,             \* number of the current run
    provisioned,       \* base dirs an earlier run provisioned completely
    base,              \* config_dir: realpath(curdir) of the current run
    pc,                \* position of the run in main()
    container_engine,  \* main(): container_engine
    volume_name,       \* main(): volume_name
    image_tag,         \* main(): image_tag
    out,               \* lines echoed in this run
    calls,             \* external invocations of this run, in order
    rcs,               \* return codes of this run's engine subprocesses
    exitStatus,        \* process exit status of this run
    barPos,            \* bar.pos
    barLength,         \* bar.length
    barPending,        \* bar._completed_intervals
    note,              \* arguments of the last progress notification
    notes              \* notifications delivered during this clone

vars == <<dockerInstalled, podmanInstalled, barBuffered, zmk, build, volume,
          image, runNo, provisioned, base, pc, container_engine, volume_name,
          image_tag, out, calls, rcs, exitStatus, barPos, barLength,
          barPending, note, notes>>

hostVars == <<dockerInstalled, podmanInstalled, barBuffered>>
barVars  == <<barPos, barLength, barPending, note, notes>>

NoNote == [cur |-> None, max |-> None]

\* ----------------------------------------------------------- pure helpers

\* int(x) on a non-negative count kept in halves.
PyInt(h) == h \div 2

\* Path(base) / name
Join(b, name) == <<b, name>>

Echo(m, a) == [msg |-> m, arg |-> a]

NoMounts == <<>>

Call(prog, cmd, name, target, mounts, ports) ==
    [prog |-> prog, cmd |-> cmd, name |-> name, target |-> target,
     mounts |-> mounts, ports |-> ports]

\* resolve_container_engine: the two which() tests, podman tested last.
ResolveEngine_dockerWins(d, p) ==
    IF d THEN "docker" ELSE IF p THEN "podman" ELSE ""

ResolveEngine_defaultDocker(d, p) ==
    IF p THEN "podman" ELSE "docker"

ResolveEngine(d, p) ==
    LET first == IF d THEN "docker" ELSE ""
    IN  IF p THEN "podman" ELSE first

\* exists(path) and isdir(path)
IsDirectory_existsOnly(st) == st = "file"

IsDirectory(st) == st # "absent" /\ st = "dir"

\* _pb_update: bar.length = int(max_count) when max_count is not None
NewLength(len, max) == IF max # None THEN PyInt(max) ELSE len

\* _pb_update: delta = int(cur_count) - pb.pos
Delta(cur, pos) == PyInt(cur) - pos

\* pb.update(delta).  click >= 8.0 adds the steps to _completed_intervals
\* and moves the position only once at least one whole step (the default
\* update_min_steps) has accumulated; earlier releases move it at once.
PendingAfter(buffered, pending, delta) ==
    IF buffered /\ pending + delta < 1 THEN pending + delta ELSE 0

PosAfter(buffered, pos, pending, delta) ==
    IF buffered
    THEN IF pending + delta >= 1 THEN pos + pending + delta ELSE pos
    ELSE pos + delta

\* subprocess.run(...) without check=True: the return code is dropped.
AfterSubprocess_checked(rc, next) == IF rc = 0 THEN next ELSE "done"

AfterSubprocess(rc, next) == next

\* Repo.clone_from raises and nothing in ensure_zmk_repo or main catches it.
AfterCloneError_swallowed == "builddir"

AfterCloneError == "done"

\* main() returns after run_container whatever the session returned.
StatusAfterSession_propagated(rc) == rc

StatusAfterSession(rc) == 0

\* Status of an uncaught exception.
UncaughtStatus == 1

\* recreate_volume: the removal is issued first, the creation second.
VolumeCommands_swapped == <<"volume create", "volume rm">>

VolumeCommands == <<"volume rm", "volume create">>

RunMounts(b, vol) ==
    << [src |-> Join(b, "zmk"),   dst |-> "/workspaces/zmk"],
       [src |-> <<vol>>,          dst |-> "/workspaces/zmk-config"],
       [src |-> Join(b, "build"), dst |-> "/workspaces/build"] >>

RunPorts == << "3000:3000" >>

\* ------------------------------------------------------------------ Init

RunStart(b) ==
    /\ base = b
    /\ pc = "start"
    /\ container_engine = ""
    /\ volume_name = ""
    /\ image_tag = ""
    /\ out = <<>>
    /\ calls = <<>>
    /\ rcs = <<>>
    /\ exitStatus = NoStatus
    /\ barPos = 0
    /\ barLength = 0
    /\ barPending = 0
    /\ note = NoNote
    /\ notes = 0

Init ==
    /\ dockerInstalled \in BOOLEAN
    /\ podmanInstalled \in BOOLEAN
    /\ barBuffered \in BOOLEAN
    /\ zmk \in {f \in [BaseDirs -> PathStates] : f[OtherDir] = "absent"}
    /\ build \in {f \in [BaseDirs -> PathStates] : f[OtherDir] = "absent"}
    /\ volume \in BaseDirs \cup {NoVolume}
    /\ image = FALSE
    /\ runNo = 1
    /\ provisioned = {}
    /\ RunStart(FirstDir)

\* --------------------------------------------------------------- actions

\* resolve_container_engine, an engine was found: echo and return it.
ResolveFound ==
    /\ pc = "start"
    /\ ResolveEngine(dockerInstalled, podmanInstalled) # ""
    /\ container_engine' = ResolveEngine(dockerInstalled, podmanInstalled)
    /\ out' = Append(out, Echo("found", container_engine'))
    /\ pc' = "repo"
    /\ UNCHANGED <<hostVars, rcs, zmk, build, volume, image, runNo, provisioned,
                   base, volume_name, image_tag, calls, exitStatus, barVars>>

\* resolve_container_engine, no engine: message on stderr and exit(1).
ResolveNone ==
    /\ pc = "start"
    /\ ResolveEngine(dockerInstalled, podmanInstalled) = ""
    /\ out' = Append(out, Echo("no_engine", ""))
    /\ exitStatus' = ExitNoEngine
    /\ pc' = "done"
    /\ UNCHANGED <<hostVars, rcs, zmk, build, volume, image, runNo, provisioned,
                   base, container_engine, volume_name, image_tag, calls,
                   barVars>>

\* ensure_zmk_repo, <base>/zmk is a directory: confirm and return.
RepoExists ==
    /\ pc = "repo"
    /\ IsDirectory(zmk[base])
    /\ out' = Append(out, Echo("zmk_exists", ""))
    /\ pc' = "builddir"
    /\ UNCHANGED <<hostVars, rcs, zmk, build, volume, image, runNo, provisioned,
                   base, container_engine, volume_name, image_tag, calls,
                   exitStatus, barVars>>

\* ensure_zmk_repo, otherwise: open the bar and start Repo.clone_from.
CloneStart ==
    /\ pc = "repo"
    /\ ~IsDirectory(zmk[base])
    /\ barPos' = 0
    /\ barLength' = InitialBarLength
    /\ barPending' = 0
    /\ note' = NoNote
    /\ notes' = 0
    /\ calls' = Append(calls, Call("git", "clone", "", Join(base, "zmk"),
                                   NoMounts, <<>>))
    /\ pc' = "cloning"
    /\ UNCHANGED <<hostVars, rcs, zmk, build, volume, image, runNo, provisioned,
                   base, container_engine, volume_name, image_tag, out,
                   exitStatus>>

\* The clone delivers (cur_count, max_count) to _pb_update.
Notify ==
    /\ pc = "cloning"
    /\ notes < MaxNotes
    /\ \E cur \in Counts, max \in Counts \cup {None} :
         LET delta == Delta(cur, barPos)
         IN  /\ barLength' = NewLength(barLength, max)
             /\ barPos' = PosAfter(barBuffered, barPos, barPending, delta)
             /\ barPending' = PendingAfter(barBuffered, barPending, delta)
             /\ note' = [cur |-> cur, max |-> max]
    /\ notes' = notes + 1
    /\ UNCHANGED <<hostVars, rcs, zmk, build, volume, image, runNo, provisioned,
                   base, pc, container_engine, volume_name, image_tag, out,
                   calls, exitStatus>>

\* Repo.clone_from returns: the working copy is on disk and the bar closes.
CloneOk ==
    /\ pc = "cloning"
    /\ zmk[base] = "absent"
    /\ zmk' = [zmk EXCEPT ![base] = "dir"]
    /\ pc' = "cloned"
    /\ UNCHANGED <<hostVars, rcs, build, volume, image, runNo, provisioned, base,
                   container_engine, volume_name, image_tag, out, calls,
                   exitStatus, barVars>>

\* Repo.clone_from raises (network error, remote unavailable, target path
\* occupied by a file); the with block closes the bar on the way out.
CloneFail ==
    /\ pc = "cloning"
    /\ pc' = AfterCloneError
    /\ exitStatus' = IF pc' = "done" THEN UncaughtStatus ELSE exitStatus
    /\ barPos' = 0
    /\ barLength' = 0
    /\ barPending' = 0
    /\ note' = NoNote
    /\ notes' = 0
    /\ UNCHANGED <<hostVars, rcs, zmk, build, volume, image, runNo, provisioned,
                   base, container_engine, volume_name, image_tag, out, calls>>

\* ensure_zmk_repo leaves the with block (the bar is gone) and confirms.
CloneEcho ==
    /\ pc = "cloned"
    /\ out' = Append(out, Echo("cloned", ""))
    /\ pc' = "builddir"
    /\ barPos' = 0
    /\ barLength' = 0
    /\ barPending' = 0
    /\ note' = NoNote
    /\ notes' = 0
    /\ UNCHANGED <<hostVars, rcs, zmk, build, volume, image, runNo, provisioned,
                   base, container_engine, volume_name, image_tag, calls,
                   exitStatus>>

\* ensure_build_dir, <base>/build is a directory: confirm and return.
BuildDirExists ==
    /\ pc = "builddir"
    /\ IsDirectory(build[base])
    /\ out' = Append(out, Echo("build_exists", ""))
    /\ pc' = "volume_rm"
    /\ UNCHANGED <<hostVars, rcs, zmk, build, volume, image, runNo, provisioned,
                   base, container_engine, volume_name, image_tag, calls,
                   exitStatus, barVars>>

\* ensure_build_dir, nothing at <base>/build: makedirs and confirm.
BuildDirCreate ==
    /\ pc = "builddir"
    /\ build[base] = "absent"
    /\ build' = [build EXCEPT ![base] = "dir"]
    /\ calls' = Append(calls, Call("os", "makedirs", "", Join(base, "build"),
                                   NoMounts, <<>>))
    /\ out' = Append(out, Echo("build_created", ""))
    /\ pc' = "volume_rm"
    /\ UNCHANGED <<hostVars, rcs, zmk, volume, image, runNo, provisioned, base,
                   container_engine, volume_name, image_tag, exitStatus,
                   barVars>>

\* ensure_build_dir, a file sits at <base>/build: makedirs raises
\* FileExistsError, which nothing catches.
BuildDirFail ==
    /\ pc = "builddir"
    /\ build[base] = "file"
    /\ calls' = Append(calls, Call("os", "makedirs", "", Join(base, "build"),
                                   NoMounts, <<>>))
    /\ exitStatus' = UncaughtStatus
    /\ pc' = "done"
    /\ UNCHANGED <<hostVars, rcs, zmk, build, volume, image, runNo, provisioned,
                   base, container_engine, volume_name, image_tag, out,
                   barVars>>

\* One engine subprocess of recreate_volume.  A removal that succeeds
\* leaves no volume; one that fails (volume in use, engine unreachable)
\* leaves the store as it was.  A creation succeeds only when the name is
\* free and then binds the volume to <base>/config.
VolumeEffect(cmd, rc) ==
    IF cmd = "volume rm"
    THEN IF rc = 0 THEN NoVolume ELSE volume
    ELSE IF rc = 0 /\ volume = NoVolume THEN base ELSE volume

VolumeCall(cmd) ==
    Call(container_engine, cmd, "zmk-config",
         IF cmd = "volume create" THEN Join(base, "config") ELSE <<>>,
         NoMounts, <<>>)

\* recreate_volume, first subprocess.run.
VolumeFirst ==
    /\ pc = "volume_rm"
    /\ \E rc \in {0, 1} :
         /\ volume' = VolumeEffect(VolumeCommands[1], rc)
         /\ rcs' = Append(rcs, rc)
         /\ pc' = AfterSubprocess(rc, "volume_create")
         /\ exitStatus' = IF pc' = "done" THEN UncaughtStatus ELSE exitStatus
    /\ calls' = Append(calls, VolumeCall(VolumeCommands[1]))
    /\ UNCHANGED <<hostVars, zmk, build, image, runNo, provisioned, base,
                   container_engine, volume_name, image_tag, out, barVars>>

\* recreate_volume, second subprocess.run, the confirmation and the return.
VolumeSecond ==
    /\ pc = "volume_create"
    /\ \E rc \in {0, 1} :
         /\ volume' = VolumeEffect(VolumeCommands[2], rc)
         /\ rcs' = Append(rcs, rc)
         /\ pc' = AfterSubprocess(rc, "image")
         /\ exitStatus' = IF pc' = "done" THEN UncaughtStatus ELSE exitStatus
         /\ out' = IF pc' = "done" THEN out
                   ELSE Append(out, Echo("volume_recreated", "zmk-config"))
         /\ volume_name' = IF pc' = "done" THEN volume_name ELSE "zmk-config"
    /\ calls' = Append(calls, VolumeCall(VolumeCommands[2]))
    /\ UNCHANGED <<hostVars, zmk, build, image, runNo, provisioned, base,
                   container_engine, image_tag, barVars>>

\* build_image: the build, the confirmation and the return.
BuildImage ==
    /\ pc = "image"
    /\ \E rc \in {0, 1} :
         /\ image' = IF rc = 0 THEN TRUE ELSE image
         /\ rcs' = Append(rcs, rc)
         /\ pc' = AfterSubprocess(rc, "help")
         /\ exitStatus' = IF pc' = "done" THEN UncaughtStatus ELSE exitStatus
         /\ out' = IF pc' = "done" THEN out
                   ELSE Append(out, Echo("image_built", "zmk-west"))
         /\ image_tag' = IF pc' = "done" THEN image_tag ELSE "zmk-west"
    /\ calls' = Append(calls,
                       Call(container_engine, "build", "zmk-west",
                            Join(base, "zmk"), NoMounts, <<>>))
    /\ UNCHANGED <<hostVars, zmk, build, volume, runNo, provisioned, base,
                   container_engine, volume_name, barVars>>

\* print_help
PrintHelp ==
    /\ pc = "help"
    /\ out' = Append(out, Echo("help", ""))
    /\ pc' = "run"
    /\ UNCHANGED <<hostVars, rcs, zmk, build, volume, image, runNo, provisioned,
                   base, container_engine, volume_name, image_tag, calls,
                   exitStatus, barVars>>

\* run_container: the interactive session; main() returns when it ends,
\* whatever its return code.
RunContainer ==
    /\ pc = "run"
    /\ calls' = Append(calls,
                       Call(container_engine, "run", image_tag, <<>>,
                            RunMounts(base, volume_name), RunPorts))
    /\ \E rc \in {0, 1} :
         /\ rcs' = Append(rcs, rc)
         /\ exitStatus' = StatusAfterSession(rc)
    /\ pc' = "done"
    /\ UNCHANGED <<hostVars, zmk, build, volume, image, runNo, provisioned,
                   base, container_engine, volume_name, image_tag, out,
                   barVars>>

\* The script is started again, from any working directory.
NextRun ==
    /\ pc = "done"
    /\ runNo < MaxRuns
    /\ runNo' = runNo + 1
    /\ provisioned' = IF exitStatus = 0 THEN provisioned \cup {base}
                      ELSE provisioned
    /\ base' \in BaseDirs
    /\ pc' = "start"
    /\ container_engine' = ""
    /\ volume_name' = ""
    /\ image_tag' = ""
    /\ out' = <<>>
    /\ calls' = <<>>
    /\ rcs' = <<>>
    /\ exitStatus' = NoStatus
    /\ barPos' = 0
    /\ barLength' = 0
    /\ barPending' = 0
    /\ note' = NoNote
    /\ notes' = 0
    /\ UNCHANGED <<hostVars, zmk, build, volume, image>>

Next ==
    \/ ResolveFound
    \/ ResolveNone
    \/ RepoExists
    \/ CloneStart
    \/ Notify
    \/ CloneOk
    \/ CloneFail
    \/ CloneEcho
    \/ BuildDirExists
    \/ BuildDirCreate
    \/ BuildDirFail
    \/ VolumeFirst
    \/ VolumeSecond
    \/ BuildImage
    \/ PrintHelp
    \/ RunContainer
    \/ NextRun

Spec == Init /\ [][Next]_vars

\* ---------------------------------------------------- reading the run log

Called(cmd) == \E i \in 1 .. Len(calls) : calls[i].cmd = cmd

Said(m) == \E i \in 1 .. Len(out) : out[i].msg = m

NoEngine == ~dockerInstalled /\ ~podmanInstalled

LastCall == calls[Len(calls)]

\* Position of a step in the sequence of main().
CallRank(cmd) ==
    CASE cmd = "clone"         -> 1
      [] cmd = "makedirs"      -> 2
      [] cmd = "volume rm"     -> 3
      [] cmd = "volume create" -> 4
      [] cmd = "build"         -> 5
      [] cmd = "run"           -> 7

EchoRank(m) ==
    CASE m = "found"            -> 0
      [] m = "no_engine"        -> 0
      [] m = "zmk_exists"       -> 1
      [] m = "cloned"           -> 1
      [] m = "build_exists"     -> 2
      [] m = "build_created"    -> 2
      [] m = "volume_recreated" -> 4
      [] m = "image_built"      -> 5
      [] m = "help"             -> 6

\* ------------------------------------------------------------------- C1
\* C1: on a host with neither docker nor podman, the run makes no external
\* call at all (no clone, makedirs, volume rm/create, build, run), never
\* enters a later step, and ends with exit status 1.
C1_NoEngineRun ==
    NoEngine =>
        /\ calls = <<>>
        /\ rcs = <<>>
        /\ pc \in {"start", "done"}
        /\ pc = "done" => exitStatus = 1 /\ out = <<Echo("no_engine", "")>>

C1_NoEngineStep ==
    NoEngine =>
        /\ zmk' = zmk /\ build' = build
        /\ volume' = volume /\ image' = image

C1_NoEngineNoSideEffect ==
    [](C1_NoEngineRun) /\ [][C1_NoEngineStep]_vars

C1_Witness ==
    NoEngine /\ pc = "done" /\ exitStatus = 1 /\ runNo = 2

\* ------------------------------------------------------------------- C2
\* C2: the engine a run works with is docker when only docker is
\* installed, podman when only podman is installed, podman when both are;
\* every engine invocation of the run is made with that same identifier.
C2_EnginePrecedence ==
    pc \notin {"start"} /\ ~NoEngine =>
        /\ dockerInstalled /\ ~podmanInstalled => container_engine = "docker"
        /\ ~dockerInstalled /\ podmanInstalled => container_engine = "podman"
        /\ dockerInstalled /\ podmanInstalled  => container_engine = "podman"
        /\ out[1] = Echo("found", container_engine)
        /\ \A i \in 1 .. Len(calls) :
              calls[i].cmd \in {"volume rm", "volume create", "build", "run"}
                  => calls[i].prog = container_engine

C2_Witness ==
    /\ dockerInstalled /\ podmanInstalled
    /\ pc = "done"
    /\ Called("volume rm") /\ Called("volume create")
    /\ Called("build") /\ Called("run")
    /\ \A i \in 1 .. Len(calls) :
          calls[i].cmd \notin {"clone", "makedirs"} => calls[i].prog = "podman"

\* ------------------------------------------------------------------- C3
\* C3: a run on a base directory that an earlier run provisioned finds
\* ./zmk and ./build as directories and leaves them so: it attempts no
\* clone and no makedirs, emits the two 'exists' confirmations instead of
\* 'cloned'/'created', and does not fail.  More generally a provisioning
\* step that finds its directory only confirms it.
C3_SecondRun ==
    base \in provisioned =>
        /\ zmk[base] = "dir" /\ build[base] = "dir"
        /\ ~Called("clone") /\ ~Called("makedirs")
        /\ ~Said("cloned") /\ ~Said("build_created")
        /\ pc \notin {"start", "repo"} => Said("zmk_exists")
        /\ pc \notin {"start", "repo", "builddir"} => Said("build_exists")
        /\ pc = "done" => exitStatus = 0

C3_StepOnExisting ==
    /\ (pc = "repo" /\ zmk[base] = "dir") =>
          /\ zmk' = zmk /\ build' = build /\ calls' = calls
          /\ out' = Append(out, Echo("zmk_exists", ""))
          /\ pc' = "builddir" /\ exitStatus' = NoStatus
    /\ (pc = "builddir" /\ build[base] = "dir") =>
          /\ zmk' = zmk /\ build' = build /\ calls' = calls
          /\ out' = Append(out, Echo("build_exists", ""))
          /\ pc' = "volume_rm" /\ exitStatus' = NoStatus

C3_ProvisioningIdempotent ==
    [](C3_SecondRun) /\ [][C3_StepOnExisting]_vars

\* A second run in the directory where the first run cloned and created.
C3_Witness ==
    /\ runNo = 2 /\ base \in provisioned
    /\ pc = "volume_rm"
    /\ Said("zmk_exists") /\ Said("build_exists")
    /\ calls = <<>>

\* ------------------------------------------------------------------- C4
\* C4: once recreate_volume has returned, the volume 'zmk-config' is bound
\* to ./config of the current base directory, whatever the engine held
\* before and whatever the removal returned.
C4_VolumeBoundToCurrentBase ==
    volume_name = "zmk-config" => volume = base

\* ------------------------------------------------------------------- C5
\* C5: while a clone is running, no notification makes the displayed
\* position smaller than it was.
C5_PositionMonotonic ==
    [][(pc = "cloning" /\ pc' = "cloning") => barPos' >= barPos]_vars

\* ------------------------------------------------------------------- C6
\* C6: when the clone has finished and its last notification carried a
\* max_count, the displayed position equals that max_count.
C6_FinalPositionIsMax ==
    (pc = "cloned" /\ note.max # None) => barPos = PyInt(note.max)

\* ------------------------------------------------------------------- C7
\* The steps of a run in which an engine was found: external calls and
\* confirmations each appear in the order of main(), none twice; a call is
\* made only after the confirmation of the step before it, and the help
\* text is printed before the container is started.
C7_Order ==
    /\ \A i, j \in 1 .. Len(calls) :
          i < j => CallRank(calls[i].cmd) < CallRank(calls[j].cmd)
    /\ \A i, j \in 1 .. Len(out) :
          i < j => EchoRank(out[i].msg) < EchoRank(out[j].msg)
    /\ Called("clone") => Said("found")
    /\ Called("makedirs") => Said("zmk_exists") \/ Said("cloned")
    /\ Called("volume rm") => Said("build_exists") \/ Said("build_created")
    /\ Called("volume create") => Called("volume rm")
    /\ Said("volume_recreated") => Called("volume create")
    /\ Called("build") => Said("volume_recreated")
    /\ Said("image_built") => Called("build")
    /\ Said("help") => Said("image_built")
    /\ Called("run") => Said("help")
    /\ Len(rcs) <= 4

\* C7 as claimed: the order above, and a run that ends without having
\* started the container is a run that found no engine.
C7_OnlyNoEngineEndsEarly ==
    /\ C7_Order
    /\ (pc = "done" /\ ~Called("run")) => NoEngine

\* C7 amended: the order above, and a run that ends without having
\* started the container either found no engine or ended in the clone or
\* the makedirs raising.
C7_OrderAndEarlyExits ==
    /\ C7_Order
    /\ (pc = "done" /\ ~Called("run")) =>
          \/ NoEngine /\ calls = <<>>
          \/ /\ ~NoEngine
             /\ exitStatus = UncaughtStatus
             /\ LastCall.cmd = "clone" /\ zmk[base] # "dir"
          \/ /\ ~NoEngine
             /\ exitStatus = UncaughtStatus
             /\ LastCall.cmd = "makedirs" /\ build[base] = "file"

C7_Witness ==
    /\ pc = "done" /\ Called("run")
    /\ Len(calls) = 6
    /\ calls[1].cmd = "clone" /\ calls[2].cmd = "makedirs"
    /\ calls[3].cmd = "volume rm" /\ calls[4].cmd = "volume create"
    /\ calls[5].cmd = "build" /\ calls[6].cmd = "run"
    /\ Len(out) = 6

\* ------------------------------------------------------------------- C8
\* C8 as claimed: a run that went through the whole sequence ends with
\* status 0 whatever the session returned, and a run that ends with
\* status 1 found no engine.
C8_StatusOneOnlyNoEngine ==
    pc = "done" =>
        /\ Called("run") => exitStatus = 0
        /\ exitStatus = 1 => NoEngine

\* C8 amended: a run that went through the whole sequence ends with status
\* 0 whatever the session returned, and only such a run does; a run ends
\* with status 1 when no engine was found or when the clone or the
\* makedirs raised, and never once the container has been started.
C8_ExitStatus ==
    pc = "done" =>
        /\ exitStatus \in {0, 1}
        /\ exitStatus = 0 <=> Called("run")
        /\ Called("run") => Len(rcs) = 4
        /\ exitStatus = 1 <=>
              \/ NoEngine
              \/ ~NoEngine /\ ~Called("run")
                           /\ LastCall.cmd \in {"clone", "makedirs"}

\* The session ended abnormally and the run still ends with status 0.
C8_Witness ==
    pc = "done" /\ Len(rcs) = 4 /\ rcs[4] = 1 /\ exitStatus = 0

\* ------------------------------------------------------------------- C9
\* C9: when the clone has failed (it was started, it is over, and ./zmk is
\* no directory), the run is over with the clone as its one and only
\* external call, no 'cloned' confirmation and no later step.
C9_CloneFailureFatal ==
    (Called("clone") /\ pc # "cloning" /\ zmk[base] # "dir") =>
        /\ pc = "done"
        /\ exitStatus = UncaughtStatus
        /\ Len(calls) = 1
        /\ out = <<Echo("found", container_engine)>>
        /\ rcs = <<>>
        /\ volume_name = "" /\ image_tag = ""

\* A clone into a free path failed.
C9_Witness ==
    /\ pc = "done" /\ Called("clone") /\ zmk[base] = "absent"
    /\ exitStatus = UncaughtStatus /\ ~Said("cloned")

\* ------------------------------------------------------------------ C10
\* C10: once the build directory is settled the run goes through every
\* remaining step whatever the subprocesses return: each return code is
\* followed by the step's confirmation, and the finished run has printed
\* the help and started the container from image 'zmk-west' with the
\* three mounts (./zmk, volume 'zmk-config', ./build) and one port.
C10_ResultsUnchecked ==
    /\ Len(rcs) >= 2 => Said("volume_recreated") /\ volume_name = "zmk-config"
    /\ Len(rcs) >= 3 => Said("image_built") /\ image_tag = "zmk-west"
    /\ Len(rcs) = 1 => pc = "volume_create"
    /\ Len(rcs) = 2 => pc = "image"
    /\ Len(rcs) = 3 => pc \in {"help", "run"}
    /\ (pc = "done" /\ Called("volume rm")) =>
          /\ Len(rcs) = 4
          /\ Said("help")
          /\ LastCall.cmd = "run"
          /\ LastCall.prog = container_engine
          /\ LastCall.name = "zmk-west"
          /\ Len(LastCall.mounts) = 3
          /\ LastCall.mounts[1].src = <<base, "zmk">>
          /\ LastCall.mounts[2].src = <<"zmk-config">>
          /\ LastCall.mounts[3].src = <<base, "build">>
          /\ Len(LastCall.ports) = 1

\* Removal, creation and build all failed and the container was started.
C10_Witness ==
    /\ pc = "done" /\ Len(rcs) = 4
    /\ rcs[1] = 1 /\ rcs[2] = 1 /\ rcs[3] = 1
    /\ Called("run") /\ Said("help")

====
